---- MODULE Spec2Model ----
(***************************************************************************)
(* A model of wger's Ingredient model (nutrition/models/ingredient.py) and *)
(* of the feedback and demo views (core/views/misc.py).                    *)
(*                                                                         *)
(* Python values are modelled as follows.                                  *)
(*   - an optional value is a tuple of length 0 or 1: None is <<>>, and a  *)
(*     present value v is <<v>>;                                           *)
(*   - a string is a tuple of one-character strings, so "" is <<>> and an  *)
(*     optional string is None or << <<"a", "b">> >>;                      *)
(*   - a Decimal macronutrient amount is a whole number of 1/Denom grams,  *)
(*     and every comparison is carried out exactly, cross-multiplied.      *)
(***************************************************************************)
EXTENDS Integers, Sequences, FiniteSets, TLC

VARIABLES db, cache, clock, returned, pc, self, loaded, outcome, messages,
          settings, session, demo_data, temporary_users, requests

storeVars == <<db, cache, clock, returned>>
procVars == <<pc, self, loaded, outcome>>
sessionVars == <<settings, session, demo_data, temporary_users, requests>>
viewVars == <<messages, sessionVars>>
vars == <<db, cache, clock, returned, pc, self, loaded, outcome, messages,
          settings, session, demo_data, temporary_users, requests>>

----------------------------------------------------------------------------
(* Bounds of the model *)

\* number of request-handling processes that may interleave
NumProcs == 2
\* number of primary keys the storage can hand out
MaxId == 2
\* number of storage writes (values of the last_update clock)
MaxClock == 2
\* macronutrient amounts are multiples of 1/Denom gram
Denom == 2
\* largest macronutrient amount drawn, in 1/Denom grams
MaxMacro == 6
\* largest declared energy drawn, in kcal
MaxEnergy == 40
\* longest host text drawn for request.get_host()
MaxHostLen == 3

Procs == 1..NumProcs
Ids == 1..MaxId

----------------------------------------------------------------------------
(* Python values *)

None == <<>>
Some(v) == <<v>>

\* Python truthiness of an optional number: None and 0 are both false
TruthyNum(x) == x # None /\ x[1] # 0
\* Python truthiness of an optional string: None and "" are both false
TruthyStr(x) == x # None /\ x[1] # <<>>

----------------------------------------------------------------------------
(* Program constants *)

ENERGY_APPROXIMATION == 15
ENERGY_FACTOR_protein == 4
ENERGY_FACTOR_carbohydrates == 4
ENERGY_FACTOR_fat == 9
OFF_SEARCH_PRODUCT_FOUND == 1

STATUS_PENDING == "pending"
STATUS_ACCEPTED == "accepted"
STATUS_DECLINED == "declined"

----------------------------------------------------------------------------
(* Ingredient.clean *)

\* energy contributed by one macronutrient, in 1/Denom kcal; an absent or
\* zero amount contributes 0
MacroEnergy(amount, factor) == IF TruthyNum(amount) THEN amount[1] * factor ELSE 0

\* energy_calculated, in 1/Denom kcal
energy_calculated(r) ==
    MacroEnergy(r.protein, ENERGY_FACTOR_protein)
    + MacroEnergy(r.carbohydrates, ENERGY_FACTOR_carbohydrates)
    + MacroEnergy(r.fat, ENERGY_FACTOR_fat)

\* energy_upper and energy_lower, in 1/100 kcal
energy_upper(r) == r.energy[1] * (100 + ENERGY_APPROXIMATION)
energy_lower(r) == r.energy[1] * (100 - ENERGY_APPROXIMATION)

\* line 296: the comparison is made only for a truthy energy
CleanChecksEnergy(r) == TruthyNum(r.energy)

\* line 300: energy_upper > energy_calculated and energy_calculated > energy_lower
InBand(r) ==
    /\ energy_upper(r) * Denom > 100 * energy_calculated(r)
    /\ 100 * energy_calculated(r) > energy_lower(r) * Denom

\* TRUE when clean() returns, FALSE when it raises ValidationError
CleanPasses(r) == IF CleanChecksEnergy(r) THEN InBand(r) ELSE TRUE

----------------------------------------------------------------------------
(* The Ingredient object and the data it is built from *)

\* the text used for names in this model
Oat == <<"o", "a", "t">>

\* cls(**data): a new, unsaved Ingredient; status defaults to pending and
\* the authorship is unset
NewIngredient(data) ==
    [ id |-> None,
      energy |-> data.energy,
      protein |-> data.protein,
      carbohydrates |-> data.carbohydrates,
      fat |-> data.fat,
      name |-> data.name,
      common_name |-> data.common_name,
      status |-> STATUS_PENDING,
      license_author |-> None,
      last_update |-> 0 ]

\* the nutrition values a form or an import can carry
NutritionData(energies, macros, names, commonNames) ==
    [ energy : energies, protein : macros, carbohydrates : macros, fat : macros,
      name : names, common_name : commonNames ]

\* every combination of declared energy and macronutrients within the bounds
\* (an absent value included), for the validation alone
CleanInputs ==
    NutritionData({None} \cup {Some(e) : e \in 0..MaxEnergy},
                  {None} \cup {Some(m) : m \in 0..MaxMacro},
                  {Some(Oat)}, {Some(Oat)})

\* what a submitted form carries in the storage model: 8 kcal is the energy
\* of 2 g of protein, so both plausible and implausible records occur
FormInputs ==
    [ energy : {Some(0), Some(8)}, protein : {Some(0), Some(2 * Denom)},
      carbohydrates : {Some(0)}, fat : {Some(0)},
      name : {Some(Oat)}, common_name : {Some(Oat)} ]

\* the one content written by the savers of the cache model; the saves are
\* told apart by last_update
CacheInputs ==
    [ energy : {Some(8)}, protein : {Some(2 * Denom)},
      carbohydrates : {Some(0)}, fat : {Some(0)},
      name : {Some(Oat)}, common_name : {Some(Oat)} ]

----------------------------------------------------------------------------
(* Storage and cache *)

\* cache_mapper.get_ingredient_key(id): a key that is a function of the id
get_ingredient_key(id) == <<"ingredient", id>>

Keys == {get_ingredient_key(i) : i \in Ids}

\* a cache read of a key that holds nothing returns None
Miss == None

\* the primary key the storage gives to a new row
FreeIds == {i \in Ids : db[i] = None}
NextId == CHOOSE i \in FreeIds : \A j \in FreeIds : i <= j

\* What the last call of a process did: the operation, its argument (a
\* request or a lookup response), what it returned, the exception it
\* raised, and the number of mail deliveries it attempted
NoOutcome == [op |-> "none", result |-> None, raised |-> "none", mails |-> 0, arg |-> None]

Max(a, b) == IF a >= b THEN a ELSE b

----------------------------------------------------------------------------
(* Initial states *)

\* nothing stored, nothing cached, no object in memory
EmptyStore ==
    /\ db = [i \in Ids |-> None]
    /\ cache = [k \in Keys |-> Miss]
    /\ clock = 0
    /\ returned = [i \in Ids |-> 0]

\* request.user of a visitor who is not logged in; it has no userprofile
AnonymousUser == [is_authenticated |-> FALSE, userprofile |-> None]
\* a guest account, and a registered account
TemporaryUser == [is_authenticated |-> TRUE, userprofile |-> Some([is_temporary |-> TRUE])]
RegularUser == [is_authenticated |-> TRUE, userprofile |-> Some([is_temporary |-> FALSE])]

\* a session of a visitor that has asked for nothing yet
NoSession ==
    /\ settings = [ALLOW_GUEST_USERS |-> TRUE]
    /\ session = [user |-> AnonymousUser, has_demo_data |-> FALSE]
    /\ demo_data = <<>>
    /\ temporary_users = 0
    /\ requests = 0

\* no call in progress and no flash message
Idle ==
    /\ pc = [p \in Procs |-> "idle"]
    /\ loaded = [p \in Procs |-> None]
    /\ outcome = [p \in Procs |-> NoOutcome]
    /\ messages = <<>>

Quiet ==
    /\ Idle
    /\ NoSession

Init ==
    /\ EmptyStore
    /\ Quiet
    /\ self = [p \in Procs |-> None]

----------------------------------------------------------------------------
(* What the callers of the model do with an object, between the calls *)

\* a form or an import builds a new object: cls(**data)
Construct(p, data) ==
    /\ pc[p] = "idle"
    /\ self' = [self EXCEPT ![p] = Some(NewIngredient(data))]
    /\ outcome' = [outcome EXCEPT ![p] = NoOutcome]
    /\ UNCHANGED <<pc, loaded>>
    /\ UNCHANGED storeVars
    /\ UNCHANGED viewVars

\* an edit view loads the stored object with primary key i
Load(p, i) ==
    /\ pc[p] = "idle"
    /\ db[i] # None
    /\ self' = [self EXCEPT ![p] = db[i]]
    /\ outcome' = [outcome EXCEPT ![p] = NoOutcome]
    /\ UNCHANGED <<pc, loaded>>
    /\ UNCHANGED storeVars
    /\ UNCHANGED viewVars

\* an edit form overwrites the nutrition values of the object in memory
Edit(p, data) ==
    /\ pc[p] = "idle"
    /\ self[p] # None
    /\ self' = [self EXCEPT ![p] =
                  Some([self[p][1] EXCEPT !.energy = data.energy,
                                          !.protein = data.protein,
                                          !.carbohydrates = data.carbohydrates,
                                          !.fat = data.fat])]
    /\ outcome' = [outcome EXCEPT ![p] = NoOutcome]
    /\ UNCHANGED <<pc, loaded>>
    /\ UNCHANGED storeVars
    /\ UNCHANGED viewVars

----------------------------------------------------------------------------
(* Ingredient.clean as an operation *)

Clean(p) ==
    /\ pc[p] = "idle"
    /\ self[p] # None
    /\ outcome' = [outcome EXCEPT ![p] =
                     [op |-> "clean", result |-> None,
                      raised |-> IF CleanPasses(self[p][1]) THEN "none"
                                 ELSE "ValidationError",
                      mails |-> 0, arg |-> None]]
    /\ UNCHANGED <<pc, self, loaded>>
    /\ UNCHANGED storeVars
    /\ UNCHANGED viewVars

----------------------------------------------------------------------------
(* Ingredient.save: super().save(), then cache.delete(key) *)

\* the mutant evicts the key of another record than the one saved
SaveEvictedKey_Other(obj) == get_ingredient_key(IF obj.id[1] = 1 THEN MaxId ELSE 1)
\* the key save() evicts
SaveEvictedKey(obj) == get_ingredient_key(obj.id[1])

\* the row super().save() writes: a new row gets the next primary key, and
\* last_update (auto_now) is set to the time of the write
SavedRow(obj) ==
    [obj EXCEPT !.id = IF obj.id = None THEN Some(NextId) ELSE obj.id,
                !.last_update = clock + 1]

\* the mutant leaves the cache as it is
CacheAfterSave_Skipped(obj) == cache
\* the cache after line 319
CacheAfterSave(obj) == [cache EXCEPT ![SaveEvictedKey(obj)] = Miss]

\* where a process is when super().save() is about to run
BeforeWrite == {"idle", "fetch_save"}
\* where it is between super().save() and cache.delete
AfterWrite(at) == IF at = "fetch_save" THEN "fetch_evict" ELSE "evict"

\* the argument of the call that save() runs in: the lookup response
\* within fetch_ingredient_from_off, nothing for a save() of its own
CallArg(p) == IF pc[p] \in {"fetch_save", "fetch_evict"} THEN outcome[p].arg ELSE None

\* line 318: the storage write
SaveWrite(p) ==
    /\ pc[p] \in BeforeWrite
    /\ self[p] # None
    /\ clock < MaxClock
    /\ self[p][1].id = None => FreeIds # {}
    /\ LET row == SavedRow(self[p][1])
       IN /\ db' = [db EXCEPT ![row.id[1]] = Some(row)]
          /\ self' = [self EXCEPT ![p] = Some(row)]
    /\ clock' = clock + 1
    /\ pc' = [pc EXCEPT ![p] = AfterWrite(pc[p])]
    /\ outcome' = [outcome EXCEPT ![p] = [NoOutcome EXCEPT !.arg = CallArg(p)]]
    /\ UNCHANGED <<cache, returned, loaded>>
    /\ UNCHANGED viewVars

\* line 318 raising (the storage refuses the write): save() raises, and
\* line 319 is not reached
SaveFail(p) ==
    /\ pc[p] \in BeforeWrite
    /\ self[p] # None
    /\ pc' = [pc EXCEPT ![p] = "idle"]
    /\ outcome' = [outcome EXCEPT ![p] =
                     [op |-> IF pc[p] = "fetch_save" THEN "fetch" ELSE "save",
                      result |-> None, raised |-> "DatabaseError", mails |-> 0,
                      arg |-> CallArg(p)]]
    /\ UNCHANGED <<self, loaded>>
    /\ UNCHANGED storeVars
    /\ UNCHANGED viewVars

\* line 319, and the return of save(); within fetch_ingredient_from_off
\* line 486 returns the saved object
SaveEvict(p) ==
    /\ pc[p] \in {"evict", "fetch_evict"}
    /\ cache' = CacheAfterSave(self[p][1])
    /\ returned' = [returned EXCEPT ![self[p][1].id[1]] =
                      Max(@, self[p][1].last_update)]
    /\ pc' = [pc EXCEPT ![p] = "idle"]
    /\ outcome' = [outcome EXCEPT ![p] =
                     [op |-> IF pc[p] = "fetch_evict" THEN "fetch" ELSE "save",
                      result |-> IF pc[p] = "fetch_evict" THEN self[p] ELSE None,
                      raised |-> "none", mails |-> 0, arg |-> CallArg(p)]]
    /\ UNCHANGED <<db, clock, self, loaded>>
    /\ UNCHANGED viewVars

----------------------------------------------------------------------------
(* A reader that fills the cache: it consults the cache, on a miss loads   *)
(* the record from storage, and later stores what it derived under the     *)
(* record's key; nothing is locked in between                              *)

\* the value a reader derives from a stored row: the row as it was read
Derived(row) == row

\* cache.get(key): a hit is the reader's result, a miss sends it to storage;
\* the handler serves a new request, and holds no object of an earlier one
ReaderGet(p, i) ==
    /\ pc[p] = "idle"
    /\ self' = [self EXCEPT ![p] = None]
    /\ IF cache[get_ingredient_key(i)] # Miss
       THEN /\ outcome' = [outcome EXCEPT ![p] =
                             [op |-> "read", result |-> cache[get_ingredient_key(i)],
                              raised |-> "none", mails |-> 0, arg |-> None]]
            /\ UNCHANGED <<pc, loaded>>
       ELSE /\ pc' = [pc EXCEPT ![p] = "load"]
            /\ loaded' = [loaded EXCEPT ![p] = Some([id |-> i, row |-> None])]
            /\ outcome' = [outcome EXCEPT ![p] = NoOutcome]
    /\ UNCHANGED storeVars
    /\ UNCHANGED viewVars

\* the load from storage; a record that does not exist ends the read
ReaderLoad(p) ==
    /\ pc[p] = "load"
    /\ LET i == loaded[p][1].id
       IN IF db[i] = None
          THEN /\ pc' = [pc EXCEPT ![p] = "idle"]
               /\ loaded' = [loaded EXCEPT ![p] = None]
               /\ outcome' = [outcome EXCEPT ![p] =
                                [op |-> "read", result |-> None,
                                 raised |-> "DoesNotExist", mails |-> 0, arg |-> None]]
          ELSE /\ pc' = [pc EXCEPT ![p] = "store"]
               /\ loaded' = [loaded EXCEPT ![p] = Some([id |-> i, row |-> db[i]])]
               /\ UNCHANGED outcome
    /\ UNCHANGED self
    /\ UNCHANGED storeVars
    /\ UNCHANGED viewVars

\* cache.set(key, derived value)
ReaderStore(p) ==
    /\ pc[p] = "store"
    /\ cache' = [cache EXCEPT ![get_ingredient_key(loaded[p][1].id)] =
                   Some(Derived(loaded[p][1].row[1]))]
    /\ pc' = [pc EXCEPT ![p] = "idle"]
    /\ loaded' = [loaded EXCEPT ![p] = None]
    /\ outcome' = [outcome EXCEPT ![p] =
                     [op |-> "read", result |-> loaded[p][1].row,
                      raised |-> "none", mails |-> 0, arg |-> None]]
    /\ UNCHANGED <<db, clock, returned, self>>
    /\ UNCHANGED viewVars

----------------------------------------------------------------------------
(* Ingredient.fetch_ingredient_from_off *)

\* A response of openfoodfacts.products.get_product: a dictionary in which
\* each key may be missing.  status and product are keys of the response,
\* lang is a key of the product, and fields stands for the keys the
\* extraction reads: None when one of them is missing, else the extracted
\* data.
OffData ==
    [ energy : {Some(8)}, protein : {Some(0), Some(2 * Denom)},
      carbohydrates : {Some(0)}, fat : {Some(0)},
      name : {None, Some(<<>>), Some(Oat)},
      common_name : {Some(<<>>), Some(Oat)} ]

OffProducts == [ lang : {None, Some(<<"e", "n">>)}, fields : {None} \cup {Some(d) : d \in OffData} ]

OffResponses ==
    [ status : {None, Some(0), Some(OFF_SEARCH_PRODUCT_FOUND)},
      product : {None} \cup {Some(pr) : pr \in OffProducts} ]

\* the responses with status "product found" and no key missing
ImportResponses ==
    {r \in OffResponses :
        /\ r.status = Some(OFF_SEARCH_PRODUCT_FOUND)
        /\ r.product # None
        /\ r.product[1].lang # None
        /\ r.product[1].fields # None}

\* extract_info_from_off(product, language) raises KeyError when a key it
\* reads is missing
ExtractRaisesKeyError(product) == product.fields = None
extract_info_from_off(product) == product.fields[1]

\* the mutant goes on to the product whatever the status says
FetchPath_StatusUnchecked(resp) ==
    IF resp.status = None THEN "KeyError"
    ELSE IF resp.product = None THEN "KeyError"
    ELSE IF resp.product[1].lang = None THEN "None"
    ELSE IF ExtractRaisesKeyError(resp.product[1]) THEN "None"
    ELSE IF ~TruthyStr(extract_info_from_off(resp.product[1]).name) THEN "None"
    ELSE IF ~TruthyStr(extract_info_from_off(resp.product[1]).common_name) THEN "None"
    ELSE "create"

\* the mutant does not look at the common name (lines 481-482 left out)
FetchPath_CommonNameUnchecked(resp) ==
    IF resp.status = None THEN "KeyError"
    ELSE IF resp.status[1] # OFF_SEARCH_PRODUCT_FOUND THEN "None"
    ELSE IF resp.product = None THEN "KeyError"
    ELSE IF resp.product[1].lang = None THEN "None"
    ELSE IF ExtractRaisesKeyError(resp.product[1]) THEN "None"
    ELSE IF ~TruthyStr(extract_info_from_off(resp.product[1]).name) THEN "None"
    ELSE "create"

\* lines 468-484: what the lookup ends in before any record is saved:
\*   "KeyError"  a subscript outside the try block fails (lines 469, 471)
\*   "None"      one of the returns of lines 470, 476, 479, 482
\*   "create"    line 484 is reached
FetchPath(resp) ==
    IF resp.status = None THEN "KeyError"
    ELSE IF resp.status[1] # OFF_SEARCH_PRODUCT_FOUND THEN "None"
    ELSE IF resp.product = None THEN "KeyError"
    ELSE IF resp.product[1].lang = None THEN "None"
    ELSE IF ExtractRaisesKeyError(resp.product[1]) THEN "None"
    ELSE IF ~TruthyStr(extract_info_from_off(resp.product[1]).name) THEN "None"
    ELSE IF ~TruthyStr(extract_info_from_off(resp.product[1]).common_name) THEN "None"
    ELSE "create"

\* lines 468-484; on "create" the object is built and save() runs next
Fetch(p, resp) ==
    /\ pc[p] = "idle"
    /\ IF FetchPath(resp) = "create"
       THEN /\ self' = [self EXCEPT ![p] =
                          Some(NewIngredient(extract_info_from_off(resp.product[1])))]
            /\ pc' = [pc EXCEPT ![p] = "fetch_save"]
            /\ outcome' = [outcome EXCEPT ![p] = [NoOutcome EXCEPT !.arg = Some(resp)]]
       ELSE /\ outcome' = [outcome EXCEPT ![p] =
                             [op |-> "fetch", result |-> None,
                              raised |-> IF FetchPath(resp) = "KeyError"
                                         THEN "KeyError" ELSE "none",
                              mails |-> 0, arg |-> Some(resp)]]
            /\ UNCHANGED <<pc, self>>
    /\ UNCHANGED loaded
    /\ UNCHANGED storeVars
    /\ UNCHANGED viewVars

----------------------------------------------------------------------------
(* Requests and mail *)

\* the texts a host is made of: a name, and a port after a colon
HostNameChars == {"h"}
PortChars == {"8"}
TextsOver(chars, n) == UNION {[1..k -> chars] : k \in 0..n}
HostNames == TextsOver(HostNameChars, MaxHostLen) \ {<<>>}
HostPorts == {<<>>} \cup {<<":">> \o d : d \in TextsOver(PortChars, MaxHostLen) \ {<<>>}}
\* request.get_host(): a name, with or without ":port"
Hosts == {h \in {n \o q : n \in HostNames, q \in HostPorts} : Len(h) <= MaxHostLen}

Bob == <<"b", "o", "b">>
Eve == <<"e", "v", "e">>
Usernames == {Bob, Eve}

\* the accounts of the installation: bob has an e-mail address, eve has none
Users == { [username |-> Bob, email |-> <<"b", "@">>], [username |-> Eve, email |-> <<>>] }

Requests ==
    [ user : [username : Usernames, has_perm : BOOLEAN], host : Hosts ]

\* what the mail backend does with a message
Deliveries == {"sent", "fails"}

\* django.core.mail: a failed delivery raises unless fail_silently is set
MailRaises(delivery, fail_silently) == delivery = "fails" /\ ~fail_silently

\* str.split(':')[0]: the text before the first colon, all of it without one
RECURSIVE SplitFirst(_)
SplitFirst(s) ==
    IF s = <<>> \/ Head(s) = ":" THEN <<>>
    ELSE <<Head(s)>> \o SplitFirst(Tail(s))

----------------------------------------------------------------------------
(* Ingredient.set_author *)

\* the mutant accepts the record whoever submits it
StatusAfterSetAuthor_Always(obj, request) == STATUS_ACCEPTED

\* lines 400-401: the status after the call
StatusAfterSetAuthor(obj, request) ==
    IF request.user.has_perm THEN STATUS_ACCEPTED ELSE obj.status

\* the mutant keeps the port in the authorship
AuthorAfterSetAuthor_WholeHost(obj, request) ==
    IF TruthyStr(obj.license_author) THEN obj.license_author
    ELSE IF request.user.has_perm THEN Some(request.host)
    ELSE Some(request.user.username)

\* lines 402-406: the authorship after the call
AuthorAfterSetAuthor(obj, request) ==
    IF TruthyStr(obj.license_author) THEN obj.license_author
    ELSE IF request.user.has_perm THEN Some(SplitFirst(request.host))
    ELSE Some(request.user.username)

\* line 415 (fail_silently=True): the administrator mails attempted
SetAuthorMails(request) == IF request.user.has_perm THEN 0 ELSE 1

\* line 415: whether the call raises
SetAuthorRaises(request, delivery) ==
    ~request.user.has_perm /\ MailRaises(delivery, TRUE)

set_author(p, request, delivery) ==
    /\ pc[p] = "idle"
    /\ self[p] # None
    /\ self' = [self EXCEPT ![p] =
                  Some([self[p][1] EXCEPT
                          !.status = StatusAfterSetAuthor(self[p][1], request),
                          !.license_author = AuthorAfterSetAuthor(self[p][1], request)])]
    /\ outcome' = [outcome EXCEPT ![p] =
                     [op |-> "set_author", result |-> None,
                      raised |-> IF SetAuthorRaises(request, delivery)
                                 THEN "SMTPException" ELSE "none",
                      mails |-> SetAuthorMails(request),
                      arg |-> Some([request |-> request, delivery |-> delivery])]]
    /\ UNCHANGED <<pc, loaded>>
    /\ UNCHANGED storeVars
    /\ UNCHANGED viewVars

----------------------------------------------------------------------------
(* Ingredient.send_email *)

\* lines 377-380: User.objects.get(username=self.license_author)
UsersNamed(author) == {u \in Users : author # None /\ u.username = author[1]}

\* line 382: the author is told only when the account has an address
SendEmailMails(obj) ==
    IF UsersNamed(obj.license_author) = {} THEN 0
    ELSE IF TruthyStr(obj.license_author)
            /\ (CHOOSE u \in UsersNamed(obj.license_author) : TRUE).email # <<>>
         THEN 1
    ELSE 0

\* lines 392-397 (fail_silently=True): whether the call raises
SendEmailRaises(obj, delivery) ==
    SendEmailMails(obj) = 1 /\ MailRaises(delivery, TRUE)

send_email(p, request, delivery) ==
    /\ pc[p] = "idle"
    /\ self[p] # None
    /\ outcome' = [outcome EXCEPT ![p] =
                     [op |-> "send_email", result |-> None,
                      raised |-> IF SendEmailRaises(self[p][1], delivery)
                                 THEN "SMTPException" ELSE "none",
                      mails |-> SendEmailMails(self[p][1]),
                      arg |-> Some([request |-> request, delivery |-> delivery])]]
    /\ UNCHANGED <<pc, self, loaded>>
    /\ UNCHANGED storeVars
    /\ UNCHANGED viewVars

----------------------------------------------------------------------------
(* FeedbackClass.form_valid *)

\* the flash messages one session can hold in this model
MaxMessages == 2

\* line 215: mail_admins(subject, message), fail_silently left at its
\* default of False
FormValidRaises(delivery) == MailRaises(delivery, FALSE)

\* line 217: the redirect to success_url
FeedbackRedirect == Some(<<"software:about-us">>)

form_valid(p, request, delivery) ==
    /\ pc[p] = "idle"
    /\ Len(messages) < MaxMessages
    /\ messages' = Append(messages, "feedback_sent")
    /\ outcome' = [outcome EXCEPT ![p] =
                     [op |-> "form_valid",
                      result |-> IF FormValidRaises(delivery) THEN None
                                 ELSE FeedbackRedirect,
                      raised |-> IF FormValidRaises(delivery)
                                 THEN "SMTPException" ELSE "none",
                      mails |-> 1,
                      arg |-> Some([request |-> request, delivery |-> delivery])]]
    /\ UNCHANGED <<pc, self, loaded>>
    /\ UNCHANGED storeVars
    /\ UNCHANGED sessionVars

----------------------------------------------------------------------------
(* demo_entries: sample entries for guest users *)

\* the demo_entries requests one session makes in this model
MaxRequests == 3

\* the targets of the redirects of lines 80 and 106
FeaturesRedirect == Some(<<"software:features">>)
DashboardRedirect == Some(<<"core:dashboard">>)

\* lines 82-87; userprofile is read only of a user that is authenticated
DemoWanted(sess) ==
    /\ \/ ~sess.user.is_authenticated
       \/ sess.user.userprofile[1].is_temporary
    /\ ~sess.has_demo_data

\* lines 79-87: the request goes on to create the entries
DemoCreates(sess) == settings.ALLOW_GUEST_USERS /\ DemoWanted(sess)

\* lines 90-92: a visitor who is not logged in gets a temporary user from
\* create_temporary_user, and django_login makes it the session's user
UserAfterLogin(user) == IF ~user.is_authenticated THEN TemporaryUser ELSE user

\* the mutant leaves the flag as it was
FlagAfterDemo_Kept(sess) == sess.has_demo_data
\* line 96
FlagAfterDemo(sess) == TRUE

\* lines 79-80 and 106
DemoRedirect == IF ~settings.ALLOW_GUEST_USERS THEN FeaturesRedirect ELSE DashboardRedirect

\* one request to demo_entries, from line 79 to its return; demo_data
\* lists the users create_demo_entries was called for
demo_entries(p) ==
    /\ pc[p] = "idle"
    /\ requests < MaxRequests
    /\ requests' = requests + 1
    /\ IF DemoCreates(session)
       THEN /\ Len(messages) < MaxMessages
            /\ temporary_users' = IF ~session.user.is_authenticated
                                  THEN temporary_users + 1 ELSE temporary_users
            /\ demo_data' = Append(demo_data, UserAfterLogin(session.user))
            /\ session' = [user |-> UserAfterLogin(session.user),
                           has_demo_data |-> FlagAfterDemo(session)]
            /\ messages' = Append(messages, "demo_created")
       ELSE UNCHANGED <<temporary_users, demo_data, session, messages>>
    /\ outcome' = [outcome EXCEPT ![p] =
                     [op |-> "demo_entries", result |-> DemoRedirect,
                      raised |-> "none", mails |-> 0, arg |-> Some(session)]]
    /\ UNCHANGED settings
    /\ UNCHANGED <<pc, self, loaded>>
    /\ UNCHANGED storeVars

----------------------------------------------------------------------------
(* Specifications *)

\* the validation alone, on every input within the bounds
InitClean ==
    /\ EmptyStore
    /\ Quiet
    /\ \E data \in CleanInputs :
          self = [p \in Procs |-> IF p = 1 THEN Some(NewIngredient(data)) ELSE None]

NextClean == Clean(1)

SpecClean == InitClean /\ [][NextClean]_vars

\* one request at a time: submitted forms and edits, validated or not, and
\* the imports whose lookup finds a complete product
Next ==
    \/ \E data \in FormInputs : Construct(1, data)
    \/ \E i \in Ids : Load(1, i)
    \/ \E data \in FormInputs : Edit(1, data)
    \/ Clean(1)
    \/ SaveWrite(1)
    \/ SaveFail(1)
    \/ SaveEvict(1)
    \/ \E resp \in ImportResponses : Fetch(1, resp)

Spec == Init /\ [][Next]_vars

\* one request at a time: barcode lookups with every response, and what
\* is done with the imported object
NextOff ==
    \/ \E resp \in OffResponses : Fetch(1, resp)
    \/ SaveWrite(1)
    \/ SaveFail(1)
    \/ SaveEvict(1)
    \/ Clean(1)

SpecOff == Init /\ [][NextOff]_vars

\* savers and cache-filling readers of the same records, interleaved
NextCache ==
    \E p \in Procs :
        \/ \E data \in CacheInputs : Construct(p, data)
        \/ \E i \in Ids : Load(p, i)
        \/ SaveWrite(p)
        \/ SaveFail(p)
        \/ SaveEvict(p)
        \/ \E i \in Ids : ReaderGet(p, i)
        \/ ReaderLoad(p)
        \/ ReaderStore(p)

SpecCache == Init /\ [][NextCache]_vars

\* submissions and feedback: the object under submission has any status and
\* any authorship
SubmittedObjects ==
    { [NewIngredient(d) EXCEPT !.status = st, !.license_author = la] :
        d \in CacheInputs,
        st \in {STATUS_PENDING, STATUS_ACCEPTED, STATUS_DECLINED},
        la \in {None, Some(<<>>), Some(Bob), Some(Eve)} }

InitNotify ==
    /\ EmptyStore
    /\ Quiet
    /\ \E obj \in SubmittedObjects :
          self = [p \in Procs |-> IF p = 1 THEN Some(obj) ELSE None]

NextNotify ==
    \E request \in Requests, delivery \in Deliveries :
        \/ set_author(1, request, delivery)
        \/ send_email(1, request, delivery)
        \/ form_valid(1, request, delivery)

SpecNotify == InitNotify /\ [][NextNotify]_vars

\* one session: requests to demo_entries and feedback posts, one at a
\* time, with guest users allowed or not and any requester
SessionUsers == {AnonymousUser, TemporaryUser, RegularUser}

InitDemo ==
    /\ EmptyStore
    /\ Idle
    /\ self = [p \in Procs |-> None]
    /\ settings \in [ALLOW_GUEST_USERS : BOOLEAN]
    /\ session \in [user : SessionUsers, has_demo_data : {FALSE}]
    /\ demo_data = <<>>
    /\ temporary_users = 0
    /\ requests = 0

NextDemo ==
    \/ demo_entries(1)
    \/ \E request \in Requests, delivery \in Deliveries : form_valid(1, request, delivery)

SpecDemo == InitDemo /\ [][NextDemo]_vars

----------------------------------------------------------------------------
(* Claims about Ingredient.clean, under SpecClean *)

\* an absent amount counts as 0
Amount(x) == IF x = None THEN 0 ELSE x[1]

\* 4p + 4c + 9f, in 1/Denom kcal
ClaimedEnergy(r) == 4 * Amount(r.protein) + 4 * Amount(r.carbohydrates) + 9 * Amount(r.fat)

\* 0.85 e < 4p + 4c + 9f < 1.15 e, both bounds strict
ClaimedBand(r) ==
    /\ 85 * r.energy[1] * Denom < 100 * ClaimedEnergy(r)
    /\ 100 * ClaimedEnergy(r) < 115 * r.energy[1] * Denom

\* C1: clean() passes if and only if the energy is absent or
\* 0.85 e < 4p + 4c + 9f < 1.15 e; in every other case it raises
\* ValidationError.
C1_CleanPassesIffInBand ==
    \A p \in Procs :
        outcome[p].op = "clean" =>
            /\ (outcome[p].raised = "none") <=>
                   (self[p][1].energy = None \/ ClaimedBand(self[p][1]))
            /\ outcome[p].raised \in {"none", "ValidationError"}

\* C2: with a declared energy of 0 and a positive protein, carbohydrates or
\* fat amount, clean() raises ValidationError.
C2_ZeroEnergyWithMacrosFails ==
    \A p \in Procs :
        ( /\ outcome[p].op = "clean"
          /\ self[p][1].energy = Some(0)
          /\ ClaimedEnergy(self[p][1]) > 0 )
        => outcome[p].raised = "ValidationError"

----------------------------------------------------------------------------
(* Claims about Ingredient.save and the cache, under SpecCache *)

\* process p is between the storage write and the eviction of save()
Evicting(p) == pc[p] \in {"evict", "fetch_evict"}

\* C3, the order: while save() is between its two lines the row is
\* already in storage, at least as new as the object saved
WriteBeforeEviction ==
    \A p \in Procs :
        Evicting(p) =>
            /\ db[self[p][1].id[1]] # None
            /\ db[self[p][1].id[1]][1].last_update >= self[p][1].last_update

\* C3, the eviction: every step in which save() returns leaves the key of
\* the saved record's id without an entry, whatever it held
ReturnLeavesMiss ==
    \A p \in Procs :
        (Evicting(p) /\ pc'[p] = "idle" /\ outcome'[p].raised = "none")
        => cache'[get_ingredient_key(self'[p][1].id[1])] = Miss

\* C3: whenever save() returns for a record with id i, a read of the
\* ingredient key of i is a miss; the storage write has happened before.
C3_SaveLeavesCacheMiss == []WriteBeforeEviction /\ [][ReturnLeavesMiss]_vars

\* a save() has returned for the record it saved twice or more, its key is
\* a miss, and a reader has had an older value of the same record
C3_Witness ==
    \E p \in Procs, q \in Procs :
        /\ pc[p] = "idle" /\ outcome[p].op = "save" /\ outcome[p].raised = "none"
        /\ cache[get_ingredient_key(self[p][1].id[1])] = Miss
        /\ returned[self[p][1].id[1]] = self[p][1].last_update
        /\ outcome[q].op = "read" /\ outcome[q].result # None
        /\ outcome[q].result[1].id = self[p][1].id
        /\ outcome[q].result[1].last_update < self[p][1].last_update

\* the cache holds, for record i, a value derived from contents older than
\* those of a save() of i that has returned
Stale(i) ==
    /\ cache[get_ingredient_key(i)] # Miss
    /\ cache[get_ingredient_key(i)][1].last_update < returned[i]

\* C4 as claimed: a reader that consults the cache after a save() of the
\* record has returned never obtains a value derived from the pre-save
\* contents.
C4_ReaderNeverSeesPreSave ==
    [][\A p \in Procs, i \in Ids :
          (ReaderGet(p, i) /\ cache[get_ingredient_key(i)] # Miss)
          => cache[get_ingredient_key(i)][1].last_update >= returned[i]]_vars

\* C4 as amended: a pre-save value is in the cache after the save() has
\* returned only by the store of a reader, made after the eviction; no
\* return of save() leaves one there.
C4_StaleOnlyByReaderStore ==
    [][\A i \in Ids :
          (~Stale(i) /\ Stale(i)')
          => \E p \in Procs :
                /\ pc[p] = "store" /\ pc'[p] = "idle"
                /\ loaded[p][1].id = i
                /\ cache'[get_ingredient_key(i)] = loaded[p][1].row]_vars

\* after a save() has returned, the cache holds an older value of the
\* record, which a reader has stored or obtained
C4_Witness ==
    \E p \in Procs, i \in Ids :
        /\ Stale(i)
        /\ pc[p] = "idle" /\ outcome[p].op = "read"
        /\ outcome[p].result = cache[get_ingredient_key(i)]

----------------------------------------------------------------------------
(* Claims about Ingredient.fetch_ingredient_from_off, under SpecOff and Spec *)

\* the status of a response says something other than "product found"
NotFound(resp) == resp.status # None /\ resp.status[1] # OFF_SEARCH_PRODUCT_FOUND

\* a key is missing from the payload: the status, or, where the product is
\* read, the product, its language tag or a key of the extraction
MissingKey(resp) ==
    \/ resp.status = None
    \/ /\ resp.status = Some(OFF_SEARCH_PRODUCT_FOUND)
       /\ \/ resp.product = None
          \/ resp.product[1].lang = None
          \/ resp.product[1].fields = None

\* the step is a call of fetch_ingredient_from_off by p answered by resp
\* (the call records its response, which is compared first)
FetchCall(p, resp) == outcome'[p].arg = Some(resp) /\ Fetch(p, resp)

NotFoundResponses == {resp \in OffResponses : NotFound(resp)}

\* the call returned None at once: nothing raised, no save begun
ReturnedNoResult(p) ==
    /\ outcome'[p].op = "fetch"
    /\ outcome'[p].result = None
    /\ outcome'[p].raised = "none"
    /\ pc'[p] = "idle"
    /\ UNCHANGED <<db, cache, clock, returned>>

\* C6: a lookup whose status is not "product found" returns None, persists
\* no record, evicts nothing and raises nothing.
C6_NotFoundIsNoResult ==
    [][\A p \in Procs, resp \in NotFoundResponses :
          FetchCall(p, resp) => ReturnedNoResult(p)]_vars

\* a lookup was answered "not found" although the response carried a
\* complete product, and None came back
C6_Witness ==
    \E p \in Procs :
        /\ outcome[p].op = "fetch" /\ pc[p] = "idle"
        /\ NotFound(outcome[p].arg[1])
        /\ outcome[p].arg[1].product # None
        /\ outcome[p].arg[1].product[1].fields # None
        /\ outcome[p].result = None /\ outcome[p].raised = "none"

\* C7: a lookup whose payload misses a required key (the status, the
\* product, the language tag, a key of the extraction) ends as "not found"
\* does: None is returned and nothing is raised.
C7_MissingKeyIsNoResult ==
    \A p \in Procs :
        (outcome[p].op = "fetch" /\ pc[p] = "idle" /\ MissingKey(outcome[p].arg[1]))
        => (outcome[p].result = None /\ outcome[p].raised = "none")

\* C8: every record in storage passes the energy validation on the values
\* it was stored with.
C8_StoredRecordsAreValid ==
    \A i \in Ids : db[i] # None => CleanPasses(db[i][1])

\* the fields of a record that the extraction supplies
ExtractedFields == {"energy", "protein", "carbohydrates", "fat", "name", "common_name"}

\* the extracted data of a response with status "product found" whose
\* extraction succeeds
Extracted(resp) == extract_info_from_off(resp.product[1])

\* both the extracted name and the extracted common name are non-empty
BothNamesGiven(resp) ==
    /\ Extracted(resp).name # None /\ Len(Extracted(resp).name[1]) > 0
    /\ Extracted(resp).common_name # None /\ Len(Extracted(resp).common_name[1]) > 0

\* p is within a lookup that has gone on to create a record
Importing(p) == pc[p] \in {"fetch_save", "fetch_evict"}

\* a record is created only for a found product with both names
ImportOnlyWithBothNames ==
    \A p \in Procs :
        Importing(p) => /\ outcome[p].arg # None
                        /\ outcome[p].arg[1] \in ImportResponses
                        /\ BothNamesGiven(outcome[p].arg[1])

\* the lookup begins: with both names it goes on to create a record, and
\* has persisted nothing yet; else it returns None and persists nothing
ImportBegins(p, resp) ==
    IF BothNamesGiven(resp)
    THEN pc'[p] = "fetch_save" /\ UNCHANGED <<db, cache, clock, returned>>
    ELSE ReturnedNoResult(p)

\* the write of the lookup adds exactly one record to storage, under a
\* primary key that was free, and changes no other
ImportWritesOneNewRecord(p) ==
    (pc[p] = "fetch_save" /\ pc'[p] = "fetch_evict")
    => \E i \in Ids :
          /\ db[i] = None /\ db'[i] # None
          /\ \A j \in Ids \ {i} : db'[j] = db[j]
          /\ \A f \in ExtractedFields : db'[i][1][f] = Extracted(outcome[p].arg[1])[f]

\* the lookup returns: the result is the stored record, which carries the
\* extracted fields, and the return itself writes nothing
ImportReturnsStoredRecord(p) ==
    (pc[p] = "fetch_evict" /\ pc'[p] = "idle")
    => /\ outcome'[p].op = "fetch" /\ outcome'[p].raised = "none"
       /\ outcome'[p].result # None
       /\ outcome'[p].result[1].id # None
       /\ db'[outcome'[p].result[1].id[1]] = outcome'[p].result
       /\ \A f \in ExtractedFields :
             outcome'[p].result[1][f] = Extracted(outcome'[p].arg[1])[f]
       /\ db' = db

\* C11: for a response with status "product found" whose extraction
\* succeeds, the lookup creates and persists exactly one new record built
\* from the extracted fields and returns it if and only if the extracted
\* name and common name are both non-empty; if either is empty it returns
\* None and persists nothing.
C11_ImportIffBothNames ==
    /\ []ImportOnlyWithBothNames
    /\ [][\A p \in Procs :
            /\ \A resp \in ImportResponses : FetchCall(p, resp) => ImportBegins(p, resp)
            /\ ImportWritesOneNewRecord(p)
            /\ ImportReturnsStoredRecord(p)]_vars

\* a lookup has returned the record it stored, and a later lookup whose
\* product had an empty common name has returned None with that record
\* still the only one in storage
C11_Witness ==
    \E p \in Procs :
        /\ outcome[p].op = "fetch" /\ pc[p] = "idle"
        /\ outcome[p].arg[1] \in ImportResponses
        /\ Extracted(outcome[p].arg[1]).name = Some(Oat)
        /\ Extracted(outcome[p].arg[1]).common_name = Some(<<>>)
        /\ outcome[p].result = None /\ outcome[p].raised = "none"
        /\ self[p] # None /\ self[p][1].id # None
        /\ db[self[p][1].id[1]] = self[p]
        /\ Cardinality({i \in Ids : db[i] # None}) = 1

----------------------------------------------------------------------------
(* Claims about the notifications, under SpecNotify *)

\* the step is a call of set_author by p with this request
SetAuthorCall(p, request) ==
    /\ outcome'[p].op = "set_author"
    /\ outcome'[p].arg[1].request = request
    /\ \E delivery \in Deliveries : set_author(p, request, delivery)

\* C5: a call of set_author by a principal without the capability leaves
\* the status as it was, attempts exactly one administrator mail, and
\* raises nothing even when the delivery fails.
C5_NoCapabilityNoApproval ==
    [][\A p \in Procs, request \in Requests :
          (~request.user.has_perm /\ SetAuthorCall(p, request))
          => /\ self'[p][1].status = self[p][1].status
             /\ outcome'[p].mails = 1
             /\ outcome'[p].raised = "none"]_vars

\* set_author ran without the capability on a pending record, the delivery
\* failed, and the record is still pending
C5_Witness ==
    \E p \in Procs :
        /\ outcome[p].op = "set_author"
        /\ ~outcome[p].arg[1].request.user.has_perm
        /\ outcome[p].arg[1].delivery = "fails"
        /\ outcome[p].mails = 1 /\ outcome[p].raised = "none"
        /\ self[p][1].status = STATUS_PENDING

\* the operations that dispatch a notification
Notifiers == {"set_author", "send_email", "form_valid"}

\* C9: a failed delivery is swallowed by every dispatching operation:
\* nothing is raised, there is no second attempt, and the operation ends
\* as it does on a delivery that succeeds.
C9_DeliveryFailureSwallowed ==
    \A p \in Procs :
        (outcome[p].op \in Notifiers /\ outcome[p].arg[1].delivery = "fails")
        => /\ outcome[p].raised = "none"
           /\ outcome[p].mails <= 1
           /\ outcome[p].op = "form_valid" => outcome[p].result = FeedbackRedirect

\* host is text followed by nothing or by a colon and a port
PortRemoved(host, text) ==
    /\ \A k \in 1..Len(text) : text[k] # ":"
    /\ \E rest \in HostPorts : host = text \o rest

\* what C10 says of a principal with the capability
ApprovedByCapability(p, request) ==
    /\ self'[p][1].status = STATUS_ACCEPTED
    /\ IF TruthyStr(self[p][1].license_author)
       THEN self'[p][1].license_author = self[p][1].license_author
       ELSE /\ self'[p][1].license_author # None
            /\ PortRemoved(request.host, self'[p][1].license_author[1])
    /\ outcome'[p].mails = 0

----------------------------------------------------------------------------
(* Claims about demo_entries, under SpecDemo *)

\* the requester is a guest: not logged in, or a temporary user
Guest(user) == user = AnonymousUser \/ user = TemporaryUser

\* the step is a request to demo_entries
DemoRequest == requests' = requests + 1

\* the step creates demo entries
DemoCreated == demo_data' # demo_data

\* entries are created only with guest users allowed, for a guest whose
\* session does not have them yet
CreatedOnlyForNewGuest ==
    DemoCreated => /\ settings.ALLOW_GUEST_USERS
                   /\ Guest(session.user)
                   /\ ~session.has_demo_data

\* creating sets the flag within the request, after a visitor who was not
\* logged in was given a temporary user, for whom the entries are
CreationSetsFlag ==
    DemoCreated => /\ session'.has_demo_data
                   /\ session.user = AnonymousUser
                      => (session'.user = TemporaryUser
                          /\ temporary_users' = temporary_users + 1)
                   /\ session.user # AnonymousUser
                      => (session'.user = session.user
                          /\ temporary_users' = temporary_users)
                   /\ demo_data' = Append(demo_data, session'.user)

\* every request ends in a redirect: to the features page when guest
\* users are disabled, to the dashboard otherwise
EndsInRedirect ==
    /\ outcome'[1].op = "demo_entries"
    /\ outcome'[1].raised = "none"
    /\ outcome'[1].result = IF settings.ALLOW_GUEST_USERS
                            THEN Some(<<"core:dashboard">>)
                            ELSE Some(<<"software:features">>)

\* demo entries exist at most once, and then the flag is set
CreatedAtMostOnce ==
    /\ Len(demo_data) <= 1
    /\ demo_data # <<>> => session.has_demo_data

\* C12: over the demo_entries requests of one session, demo entries are
\* created only when guest users are allowed, the requester is not logged
\* in or is a temporary user, and has_demo_data is false; creating them
\* sets the flag in the same request (a visitor who is not logged in is
\* first given a temporary user and logged in), so they are created at
\* most once per session; and every request ends in a redirect, to the
\* features page when guest users are disabled, to the dashboard otherwise.
C12_DemoEntriesOncePerSession ==
    /\ []CreatedAtMostOnce
    /\ [][DemoRequest => /\ CreatedOnlyForNewGuest
                         /\ CreationSetsFlag
                         /\ EndsInRedirect]_vars

\* a visitor who was not logged in got the demo entries with the first
\* request, as a temporary user, and two more requests created nothing
C12_Witness ==
    /\ requests = 3
    /\ settings.ALLOW_GUEST_USERS
    /\ temporary_users = 1
    /\ demo_data = <<TemporaryUser>>
    /\ session = [user |-> TemporaryUser, has_demo_data |-> TRUE]
    /\ outcome[1].op = "demo_entries"
    /\ outcome[1].arg = Some(session)
    /\ outcome[1].result = DashboardRedirect

====
